---- MODULE Spec2Model ----
(***************************************************************************)
(* Model of simplearg (hutorny/simplearg): the argument cursor             *)
(* simplearg::Arguments of arguments.h, its typed extraction calls and     *)
(* the dispatch loop Arguments::parse.                                     *)
(*                                                                         *)
(* Text is a sequence of fragments.  A character is a one-character        *)
(* string, a token (a C string of argv) is a sequence of characters, and   *)
(* a string literal of the source appended to errors_ is one fragment.     *)
(* A char* into a token is the suffix of the token it designates, a        *)
(* char** into argv is an index of argv.                                   *)
(***************************************************************************)
EXTENDS Integers, Sequences, FiniteSets, TLC

\* ------------------------------------------------------------------ bounds
\* longest buffer handed to str2argv
MaxBuf == 5
\* longest parameter table of the table-construction check
MaxDescr == 2
\* longest token of a one-token argument list
MaxTokLen == 3
\* longest argument list drawn from Pool
MaxArgs == 2

\* ------------------------------------------------------------- characters
Alphabet == {"a", "=", "-", "1", "9"}

Digits == {"0", "1", "2", "3", "4", "5", "6", "7", "8", "9"}

DigitVal(c) ==
  CASE c = "0" -> 0 [] c = "1" -> 1 [] c = "2" -> 2 [] c = "3" -> 3
    [] c = "4" -> 4 [] c = "5" -> 5 [] c = "6" -> 6 [] c = "7" -> 7
    [] c = "8" -> 8 [] c = "9" -> 9

DigitChar(d) ==
  CASE d = 0 -> "0" [] d = 1 -> "1" [] d = 2 -> "2" [] d = 3 -> "3"
    [] d = 4 -> "4" [] d = 5 -> "5" [] d = 6 -> "6" [] d = 7 -> "7"
    [] d = 8 -> "8" [] d = 9 -> "9"

\* std::to_string of a non-negative integer
RECURSIVE to_string_nat(_)
to_string_nat(n) ==
  IF n < 10 THEN <<DigitChar(n)>>
  ELSE to_string_nat(n \div 10) \o <<DigitChar(n % 10)>>

\* std::to_string(int)
to_string(n) == IF n < 0 THEN <<"-">> \o to_string_nat(-n) ELSE to_string_nat(n)

\* std::string_view::find(c): 0-based index of the first c, npos when absent
npos == -1

RECURSIVE find_from(_, _, _)
find_from(s, c, i) ==
  IF i > Len(s) THEN npos
  ELSE IF s[i] = c THEN i - 1
  ELSE find_from(s, c, i + 1)

find(s, c) == find_from(s, c, 1)

\* std::string_view::substr(pos, n)
substr(s, pos, n) == SubSeq(s, pos + 1, IF pos + n > Len(s) THEN Len(s) ELSE pos + n)

\* the C string designated by p + n, for a char* p and n <= strlen(p)
advance(p, n) == SubSeq(p, n + 1, Len(p))

\* ------------------------------------------------------ std::from_chars
\* slot types of the typed get: T of get<T>(T&) with numeric_limits<T>
IntTypes == {"signed char", "unsigned char"}

is_signed(T) == T = "signed char"

lowest(T) == IF T = "signed char" THEN -128 ELSE 0

max(T) == IF T = "signed char" THEN 127 ELSE 255

\* number of leading decimal digits of s from index i (1-based)
RECURSIVE digit_run(_, _)
digit_run(s, i) ==
  IF i <= Len(s) /\ s[i] \in Digits THEN 1 + digit_run(s, i + 1) ELSE 0

\* value of the decimal digits s[i .. i+n-1]
RECURSIVE digits_value(_, _, _)
digits_value(s, i, n) ==
  IF n = 0 THEN 0
  ELSE 10 * digits_value(s, i, n - 1) + DigitVal(s[i + n - 1])

\* std::from_chars(first, last, T& value), base 10: the longest prefix
\* matching [-]digits is converted (the minus sign only for a signed T);
\* ptr is the number of characters converted.  value is left unmodified
\* on both errors.
from_chars(s, T, value) ==
  LET neg == is_signed(T) /\ Len(s) >= 1 /\ s[1] = "-"
      start == IF neg THEN 2 ELSE 1
      n == digit_run(s, start)
      mag == digits_value(s, start, n)
      v == IF neg THEN -mag ELSE mag
  IN IF n = 0
       THEN [ec |-> "invalid_argument", ptr |-> 0, value |-> value]
     ELSE IF v < lowest(T) \/ v > max(T)
       THEN [ec |-> "result_out_of_range", ptr |-> start - 1 + n, value |-> value]
     ELSE [ec |-> "ok", ptr |-> start - 1 + n, value |-> v]

\* std::from_chars(first, last, double& value): over Alphabet (no '.', no
\* exponent, no "inf"/"nan" letters) the floating-point pattern reduces to
\* [-]digits, and no value of at most MaxTokLen+1 digits leaves the range
\* of double.
from_chars_double(s, value) ==
  LET neg == Len(s) >= 1 /\ s[1] = "-"
      start == IF neg THEN 2 ELSE 1
      n == digit_run(s, start)
      mag == digits_value(s, start, n)
  IN IF n = 0
       THEN [ec |-> "invalid_argument", ptr |-> 0, value |-> value]
     ELSE [ec |-> "ok", ptr |-> start - 1 + n, value |-> IF neg THEN -mag ELSE mag]

\* ------------------------------------------------------------ Arguments
\* The cursor is a record [count_, values_, errors_]; values_ is the index
\* of argv that the char** designates.  The handler object is a record of
\* slots [u, s, i, d] as in struct Test (u unsigned, i signed, s text).
\* a null char* or a null pointer to member; a null char** is the index 0
nullptr == <<"nullptr">>

nullpp == 0

SlotType(f) ==
  CASE f = "u" -> "unsigned char"
    [] f = "i" -> "signed char"
    [] f = "s" -> "std::string"
    [] f = "d" -> "double"

\* Arguments(int argc, char** argv)
Arguments(argc) == [count_ |-> argc, values_ |-> 1, errors_ |-> <<>>]

\* operator bool / empty()
empty(a) == a.count_ <= 0

\* message that marks the failure and keeps the text as it was
message_silent(a, str) == [a EXCEPT !.count_ = -1]

\* template<typename ... T> void message(T ... str)
message(a, str) == [a EXCEPT !.count_ = -1, !.errors_ = @ \o str]

\* template<typename T> bool get(T& value), T integral
get_integral(a, av, T, value) ==
  IF a.count_ <= 0 THEN [a |-> a, value |-> value, ret |-> FALSE]
  ELSE LET tok == av[a.values_]
           r == from_chars(tok, T, value)
       IN IF r.ec = "invalid_argument"
            THEN [a |-> message(a, <<"expects number in place of '">> \o tok \o <<"'">>),
                  value |-> r.value, ret |-> FALSE]
          ELSE IF r.ec = "result_out_of_range"
            THEN [a |-> message(a, <<"expects number in range [">> \o to_string(lowest(T))
                                     \o <<"..">> \o to_string(max(T))
                                     \o <<"] in place of '">> \o tok \o <<"'">>),
                  value |-> r.value, ret |-> FALSE]
          ELSE [a |-> [a EXCEPT !.count_ = @ - 1, !.values_ = @ + 1],
                value |-> r.value, ret |-> TRUE]

\* bool get(double& value)
get_double(a, av, value) ==
  IF a.count_ <= 0 THEN [a |-> a, value |-> value, ret |-> FALSE]
  ELSE LET tok == av[a.values_]
           r == from_chars_double(tok, value)
       IN IF r.ec = "invalid_argument"
            THEN [a |-> message(a, <<"expects floating point value in place of '">>
                                     \o tok \o <<"'">>),
                  value |-> r.value, ret |-> FALSE]
          ELSE IF r.ec = "result_out_of_range"
            THEN [a |-> message(a, <<"expects number in double range in place of '">>
                                     \o tok \o <<"'">>),
                  value |-> r.value, ret |-> FALSE]
          ELSE [a |-> [a EXCEPT !.count_ = @ - 1, !.values_ = @ + 1],
                value |-> r.value, ret |-> TRUE]

\* get(std::string&) that treats the empty cursor as a failure
get_string_failing(a, av, value) ==
  IF a.count_ <= 0 THEN [a |-> [a EXCEPT !.count_ = -1], value |-> value, ret |-> FALSE]
  ELSE [a |-> [a EXCEPT !.count_ = @ - 1, !.values_ = @ + 1],
        value |-> av[a.values_], ret |-> TRUE]

\* bool get(std::string& value)
get_string(a, av, value) ==
  IF a.count_ <= 0 THEN [a |-> a, value |-> value, ret |-> FALSE]
  ELSE [a |-> [a EXCEPT !.count_ = @ - 1, !.values_ = @ + 1],
        value |-> av[a.values_], ret |-> TRUE]

\* get() that marks the empty cursor as failed
get_view_failing(a, av) ==
  IF a.count_ <= 0 THEN [a |-> [a EXCEPT !.count_ = -1], ret |-> <<>>]
  ELSE [a |-> [a EXCEPT !.count_ = @ - 1, !.values_ = @ + 1], ret |-> av[a.values_]]

\* std::string_view get()
get_view(a, av) ==
  IF a.count_ <= 0 THEN [a |-> a, ret |-> <<>>]
  ELSE [a |-> [a EXCEPT !.count_ = @ - 1, !.values_ = @ + 1], ret |-> av[a.values_]]

\* get(slot) of the slot f of the handler object o: overload resolution
get(a, av, o, f) ==
  LET r == CASE SlotType(f) = "std::string" -> get_string(a, av, o[f])
             [] SlotType(f) = "double" -> get_double(a, av, o[f])
             [] OTHER -> get_integral(a, av, SlotType(f), o[f])
  IN [a |-> r.a, o |-> [o EXCEPT ![f] = r.value], ret |-> r.ret, calls |-> 1]

\* the fold with a rollback of the position when a slot fails
RECURSIVE get_fold_rollback(_, _, _, _)
get_fold_rollback(a, av, o, fs) ==
  IF fs = <<>> THEN [a |-> a, o |-> o, ret |-> TRUE, calls |-> 0]
  ELSE LET r == get(a, av, o, Head(fs))
       IN IF r.ret
            THEN LET t == get_fold_rollback(r.a, av, r.o, Tail(fs))
                 IN [t EXCEPT !.calls = @ + 1,
                              !.a.values_ = IF t.ret THEN @ ELSE a.values_]
          ELSE r

\* the fold (get(values) && ...): left to right, stops at the first false;
\* calls counts the get calls made
RECURSIVE get_fold(_, _, _, _)
get_fold(a, av, o, fs) ==
  IF fs = <<>> THEN [a |-> a, o |-> o, ret |-> TRUE, calls |-> 0]
  ELSE LET r == get(a, av, o, Head(fs))
       IN IF r.ret
            THEN LET t == get_fold(r.a, av, r.o, Tail(fs))
                 IN [t EXCEPT !.calls = @ + 1]
          ELSE r

\* getall without the test of count_ < 0
getall_unguarded(a, av, o, fs) ==
  IF Len(fs) > a.count_
    THEN [a |-> message(a, <<"expects ">> \o to_string(Len(fs))
                             \o <<" parameters, got only ">> \o to_string(a.count_)),
          o |-> o, ret |-> FALSE, calls |-> 0]
  ELSE get_fold(a, av, o, fs)

\* getall without the arity check
getall_noarity(a, av, o, fs) ==
  IF a.count_ < 0 THEN [a |-> a, o |-> o, ret |-> FALSE, calls |-> 0]
  ELSE get_fold(a, av, o, fs)

\* template<typename ... T> bool getall(T& ... values)
getall(a, av, o, fs) ==
  IF a.count_ < 0 THEN [a |-> a, o |-> o, ret |-> FALSE, calls |-> 0]
  ELSE IF Len(fs) > a.count_
    THEN [a |-> message(a, <<"expects ">> \o to_string(Len(fs))
                             \o <<" parameters, got only ">> \o to_string(a.count_)),
          o |-> o, ret |-> FALSE, calls |-> 0]
  ELSE get_fold(a, av, o, fs)

\* std::string errors(std::string&& initial)
errors(a, initial) == [a |-> [a EXCEPT !.errors_ = initial], ret |-> a.errors_]

\* contains that scans the array from its first entry
contains_from_start(a, av, value) ==
  \E i \in 1 .. a.values_ + a.count_ - 1 : av[i] = value

\* bool contains(const char value[]) const
contains(a, av, value) ==
  \E i \in 0 .. a.count_ - 1 : av[a.values_ + i] = value

\* std::pair<char**, char*> nothing {}
nothing == [first |-> nullpp, second |-> nullptr]

\* unget that steps back without counting the entry
unget_uncounted(a, av, pos) ==
  IF a.count_ < 0 THEN [a |-> a, av |-> av, ret |-> nothing]
  ELSE LET v == a.values_ - 1
       IN [a |-> [a EXCEPT !.values_ = v],
           av |-> [av EXCEPT ![v] = advance(av[v], pos)],
           ret |-> [first |-> v, second |-> av[v]]]

\* unget that leaves the '=' in front of the value
unget_short(a, av, pos) ==
  IF a.count_ < 0 THEN [a |-> a, av |-> av, ret |-> nothing]
  ELSE LET v == a.values_ - 1
       IN [a |-> [a EXCEPT !.count_ = @ + 1, !.values_ = v],
           av |-> [av EXCEPT ![v] = advance(av[v], pos - 1)],
           ret |-> [first |-> v, second |-> av[v]]]

\* std::pair<char**, char*> unget(int pos)
unget(a, av, pos) ==
  IF a.count_ < 0 THEN [a |-> a, av |-> av, ret |-> nothing]
  ELSE LET v == a.values_ - 1
       IN [a |-> [a EXCEPT !.count_ = @ + 1, !.values_ = v],
           av |-> [av EXCEPT ![v] = advance(av[v], pos)],
           ret |-> [first |-> v, second |-> av[v]]]

\* revert that restores nothing
revert_nothing(av, v) == av

\* static void revert(std::pair<char**, char*> v)
revert(av, v) ==
  IF v.first # nullpp /\ v.second # nullptr
    THEN [av EXCEPT ![v.first] = v.second]
  ELSE av

\* ----------------------------------------------------- Parameter tables
\* operator bool without the test of the dispatcher
valid_name_only(p) == p.name # <<>>

\* Parameter::operator bool
valid(p) == ~(p.name = <<>> \/ p.dispatcher = nullptr)

\* the inner loop of fillaliases: drops the leading spaces of current
RECURSIVE strip_spaces(_)
strip_spaces(current) ==
  IF current # <<>> /\ current[1] = " " THEN strip_spaces(Tail(current)) ELSE current

\* the outer loop of fillaliases: the sequence of the views handed to put
RECURSIVE fill_loop(_)
fill_loop(current) ==
  IF current = <<>> THEN <<>>
  ELSE LET c == strip_spaces(current)
           space == find(c, " ")
       IN IF space = npos THEN <<c>>
          ELSE <<substr(c, 0, space)>> \o fill_loop(advance(c, space + 1))

\* void fillaliases(const char* aliases, std::function<void(std::string_view)> put)
fillaliases(aliases) ==
  IF aliases = nullptr \/ aliases = <<>> THEN <<>> ELSE fill_loop(aliases)

\* the lambda of parse: if (!alias.empty()) dispatchers[alias] = p.dispatcher()
RECURSIVE put_aliases(_, _, _)
put_aliases(d, puts, dispatcher) ==
  IF puts = <<>> THEN d
  ELSE put_aliases(IF Head(puts) # <<>> THEN (Head(puts) :> dispatcher) @@ d ELSE d,
                   Tail(puts), dispatcher)

\* the table-building loop of parse over params[i..]
RECURSIVE fill_dispatchers(_, _, _)
fill_dispatchers(d, ps, i) ==
  IF i > Len(ps) THEN d
  ELSE LET p == ps[i]
       IN IF ~valid(p) THEN fill_dispatchers(d, ps, i + 1)
          ELSE fill_dispatchers(
                 put_aliases((p.name :> p.dispatcher) @@ d, fillaliases(p.aliases),
                             p.dispatcher),
                 ps, i + 1)

\* std::unordered_map dispatchers of parse, as a function on its keys
dispatchers(ps) == fill_dispatchers(<<>>, ps, 1)

\* the listing restricted to the valid descriptors
RECURSIVE message_valid_names(_, _, _)
message_valid_names(a, ps, i) ==
  IF i > Len(ps) THEN a
  ELSE message_valid_names(IF valid(ps[i]) THEN message(a, <<" ">> \o ps[i].name) ELSE a,
                           ps, i + 1)

\* for(auto p : params) message(' ', p.name())
RECURSIVE message_names(_, _, _)
message_names(a, ps, i) ==
  IF i > Len(ps) THEN a
  ELSE message_names(message(a, <<" ">> \o ps[i].name), ps, i + 1)

\* the parameter table of the test program (struct Test), over Alphabet,
\* followed by two descriptors that fail operator bool
TestParams ==
  << [dispatcher |-> <<"option">>, name |-> <<"a", "=">>, aliases |-> <<>>],
     [dispatcher |-> <<"foo">>, name |-> <<"a">>, aliases |-> <<"1", " ", " ", "-", "a", " ">>],
     [dispatcher |-> <<"dash">>, name |-> <<"-">>, aliases |-> <<>>],
     [dispatcher |-> <<"bar">>, name |-> <<>>, aliases |-> <<"9">>],
     [dispatcher |-> nullptr, name |-> <<"9", "=">>, aliases |-> <<"=">>] >>

Tables == {TestParams}

\* one iteration of the for loop of parse, from param = get() up to the
\* return of parse or the call of the handler
parse_step(a, av, ps) ==
  LET g == get_view(a, av)
  IN IF ~(g.a.count_ >= 0 /\ g.ret # <<>>)
       THEN [kind |-> "done", a |-> g.a, av |-> av, param |-> <<>>,
             saved |-> nothing, method |-> nullptr]
     ELSE LET eq == find(g.ret, "=")
              key == IF eq # npos THEN substr(g.ret, 0, eq + 1) ELSE g.ret
              d == dispatchers(ps)
          IN IF key \notin DOMAIN d
               THEN [kind |-> "unknown",
                     a |-> message_names(
                             message(g.a, <<"Unknown verb '">> \o key
                                          \o <<"' expected one of:">>), ps, 1),
                     av |-> av, param |-> key, saved |-> nothing, method |-> nullptr]
             ELSE LET u == IF eq # npos THEN unget(g.a, av, eq + 1)
                           ELSE [a |-> g.a, av |-> av, ret |-> nothing]
                  IN [kind |-> "invoke", a |-> u.a, av |-> u.av, param |-> key,
                      saved |-> u.ret, method |-> d[key]]

\* ------------------------------------------------------------- the inputs
\* every token of at most MaxTokLen characters over Alphabet
AllTokens == UNION {[1 .. n -> Alphabet] : n \in 0 .. MaxTokLen}

\* the tokens of the longer argument lists: a verb, a verb with an inline
\* value, a number and the empty argument
Pool == {<<"a">>, <<"a", "=", "9">>, <<"9">>, <<>>}

ArgLists ==
  {<<t>> : t \in AllTokens} \cup UNION {[1 .. n -> Pool] : n \in 0 .. MaxArgs}

\* the literals of the contains calls
ContainsArgs == {<<"a">>, <<"9">>}

\* the slot packs of the getall calls: none, Test::option, Test::bar,
\* Test::foo, and a pack whose typed slot comes second
GetallSlots == {<<>>, <<"s">>, <<"u", "s">>, <<"u", "s", "i">>, <<"s", "i">>}

\* ------------------------------------------------------------------ state
VARIABLES
  argv,    \* the caller-owned token array char* argv[]
  argv0,   \* argv as the caller built it
  args,    \* the Arguments object
  obj,     \* the handler object
  pc,      \* "idle": no parse is running; "handler": parse has called a handler
  params,  \* parse: the table it was called with
  param,   \* parse: the key handed to the running handler
  saved,   \* parse: the undo record of the split
  hops,    \* extraction calls the running handler has made (0, 1, 2 = more)
  last,    \* the last call: its name, argument, prior state and result
  call     \* the running or last parse call: what it has met so far

vars == <<argv, argv0, args, obj, pc, params, param, saved, hops, last, call>>

Obj0 == [u |-> 0, s |-> <<>>, i |-> 0, d |-> 0]

\* before: the count_ from which the token of the running handler was pulled
Call0 == [ok |-> TRUE, unknown |-> FALSE, failed |-> FALSE, before |-> 0]

Init ==
  /\ argv \in ArgLists
  /\ argv0 = argv
  /\ \E argc \in (IF argv = <<>> THEN {0, -1} ELSE {Len(argv)}) : args = Arguments(argc)
  /\ obj = Obj0
  /\ pc = "idle"
  /\ params = <<>>
  /\ param = <<>>
  /\ saved = nothing
  /\ hops = 0
  /\ last = [op |-> "Arguments", arg |-> <<>>, in |-> args, obj |-> obj, ret |-> TRUE,
             calls |-> 0]
  /\ call = Call0

\* the caller of the cursor: main, or the handler that parse has called
Caller == pc \in {"idle", "handler"}

Extracted == hops' = IF pc = "handler" /\ hops < 2 THEN hops + 1 ELSE hops

Frame == UNCHANGED <<argv, argv0, pc, params, param, saved>>

Noted(a) == call' = IF pc = "handler" /\ a.count_ < 0 THEN [call EXCEPT !.failed = TRUE] ELSE call

\* args.get(slot), slot integral
GetIntegral(f) ==
  /\ Caller
  /\ LET r == get(args, argv, obj, f)
     IN /\ args' = r.a
        /\ obj' = r.o
        /\ last' = [op |-> "get_integral", arg |-> <<f>>, in |-> args, obj |-> obj,
                    ret |-> r.ret, calls |-> 1]
        /\ Noted(r.a)
  /\ Extracted
  /\ Frame

\* args.get(slot), slot double
GetDouble ==
  /\ Caller
  /\ LET r == get(args, argv, obj, "d")
     IN /\ args' = r.a
        /\ obj' = r.o
        /\ last' = [op |-> "get_double", arg |-> <<"d">>, in |-> args, obj |-> obj,
                    ret |-> r.ret, calls |-> 1]
        /\ Noted(r.a)
  /\ Extracted
  /\ Frame

\* args.get(slot), slot std::string
GetString ==
  /\ Caller
  /\ LET r == get(args, argv, obj, "s")
     IN /\ args' = r.a
        /\ obj' = r.o
        /\ last' = [op |-> "get_string", arg |-> <<"s">>, in |-> args, obj |-> obj,
                    ret |-> r.ret, calls |-> 1]
        /\ Noted(r.a)
  /\ Extracted
  /\ Frame

\* args.get()
GetView ==
  /\ Caller
  /\ LET r == get_view(args, argv)
     IN /\ args' = r.a
        /\ last' = [op |-> "get_view", arg |-> <<>>, in |-> args, obj |-> obj,
                    ret |-> r.ret, calls |-> 1]
        /\ Noted(r.a)
  /\ Extracted
  /\ UNCHANGED obj
  /\ Frame

\* args.getall(slots...)
Getall(fs) ==
  /\ Caller
  /\ LET r == getall(args, argv, obj, fs)
     IN /\ args' = r.a
        /\ obj' = r.o
        /\ last' = [op |-> "getall", arg |-> fs, in |-> args, obj |-> obj,
                    ret |-> r.ret, calls |-> r.calls]
        /\ Noted(r.a)
  /\ Extracted
  /\ Frame

\* args.errors(initial): a handler primes the text with its name and a
\* space before it extracts (Test::foo), main clears the text
Errors(initial) ==
  /\ Caller
  /\ pc = "handler" => hops = 0
  /\ LET r == errors(args, initial)
     IN /\ args' = r.a
        /\ last' = [op |-> "errors", arg |-> initial, in |-> args, obj |-> obj,
                    ret |-> r.ret, calls |-> 0]
  /\ UNCHANGED <<obj, hops, call>>
  /\ Frame

\* args.contains(value)
Contains(value) ==
  /\ Caller
  /\ last' = [op |-> "contains", arg |-> value, in |-> args, obj |-> obj,
              ret |-> contains(args, argv, value), calls |-> 0]
  /\ UNCHANGED <<args, obj, hops, call>>
  /\ Frame

\* parse returns result
Return(a, av, result, c, in) ==
  /\ args' = a
  /\ argv' = av
  /\ pc' = "idle"
  /\ params' = <<>>
  /\ param' = <<>>
  /\ saved' = nothing
  /\ hops' = 0
  /\ call' = [c EXCEPT !.before = 0]
  /\ last' = [op |-> "parse", arg |-> <<>>, in |-> in, obj |-> obj, ret |-> result,
              calls |-> 0]

\* the loop of parse runs one iteration on the cursor a and the array av
Loop(a, av, ps, c) ==
  LET st == parse_step(a, av, ps)
      c1 == [c EXCEPT !.failed = @ \/ st.a.count_ < 0]
  IN CASE st.kind = "done" -> Return(st.a, st.av, TRUE, c1, a) /\ UNCHANGED argv0
       [] st.kind = "unknown" ->
            Return(st.a, st.av, FALSE, [c1 EXCEPT !.unknown = TRUE], a) /\ UNCHANGED argv0
       [] st.kind = "invoke" ->
            /\ args' = st.a
            /\ argv' = st.av
            /\ pc' = "handler"
            /\ params' = ps
            /\ param' = st.param
            /\ saved' = st.saved
            /\ hops' = 0
            /\ call' = [c1 EXCEPT !.before = a.count_]
            /\ last' = [op |-> "invoke", arg |-> st.method, in |-> a, obj |-> obj,
                        ret |-> TRUE, calls |-> 0]
            /\ UNCHANGED argv0

\* args.parse(obj, ps), up to its return or its first call of a handler
Parse(ps) ==
  /\ pc = "idle"
  /\ IF args.count_ <= 0
       THEN /\ last' = [op |-> "parse", arg |-> <<>>, in |-> args, obj |-> obj,
                        ret |-> FALSE, calls |-> 0]
            /\ call' = Call0
            /\ UNCHANGED <<argv, argv0, args, pc, params, param, saved, hops>>
     ELSE Loop(args, argv, ps, Call0)
  /\ UNCHANGED obj

\* a return of the handler after which the loop goes on whatever the result
HandlerReturnIgnored(result) ==
  /\ pc = "handler"
  /\ Loop(args, revert(argv, saved), params, [call EXCEPT !.ok = @ /\ result])
  /\ UNCHANGED obj

\* the running handler returns result: parse reverts the split, then
\* returns false or runs the next iteration
HandlerReturn(result) ==
  /\ pc = "handler"
  /\ LET av == revert(argv, saved)
         c == [call EXCEPT !.ok = @ /\ result]
     IN IF ~result
          THEN Return(args, av, FALSE, c, args) /\ UNCHANGED argv0
        ELSE Loop(args, av, params, c)
  /\ UNCHANGED obj

Next ==
  \/ \E f \in {"u", "i"} : GetIntegral(f)
  \/ GetDouble
  \/ GetString
  \/ GetView
  \/ \E fs \in GetallSlots : Getall(fs)
  \/ \E initial \in {<<>>} \cup (IF pc = "handler" THEN {param \o <<" ">>} ELSE {}) :
       Errors(initial)
  \/ \E value \in ContainsArgs : Contains(value)
  \/ \E ps \in Tables : Parse(ps)
  \/ \E result \in BOOLEAN : HandlerReturn(result)

Spec == Init /\ [][Next]_vars

\* ------------------------------------------- dispatch-table construction
\* the descriptors of the tables: the name empty, a verb or an option; the
\* aliases none, spaces only, or two aliases with leading, repeated and
\* trailing spaces; the dispatcher one of two methods or null
Descriptors ==
  [dispatcher : {<<"foo">>, <<"bar">>, nullptr},
   name : {<<>>, <<"a">>, <<"a", "=">>},
   aliases : {<<>>, <<" ">>, <<" ", "1", " ", " ", "-", "a", " ">>}]

TableInputs == UNION {[1 .. n -> Descriptors] : n \in 0 .. MaxDescr}

\* the arguments looked up in the tables
TableTokens == {<<"a">>, <<"1">>, <<"a", "=", "1">>, <<"-", "a">>}

InitTable ==
  /\ argv \in {<<t>> : t \in TableTokens}
  /\ argv0 = argv
  /\ args = Arguments(Len(argv))
  /\ obj = Obj0
  /\ pc = "idle"
  /\ params \in TableInputs
  /\ param = <<>>
  /\ saved = nothing
  /\ hops = 0
  /\ last = [op |-> "Parameters", arg |-> <<>>, in |-> args, obj |-> obj, ret |-> TRUE,
             calls |-> 0]
  /\ call = Call0

\* parse builds dispatchers from the table params
BuildTable ==
  /\ last.op = "Parameters"
  /\ last' = [op |-> "dispatchers", arg |-> <<>>, in |-> args, obj |-> obj,
              ret |-> dispatchers(params), calls |-> 0]
  /\ UNCHANGED <<argv, argv0, args, obj, pc, params, param, saved, hops, call>>

\* the first iteration of the loop of parse with the table params: the
\* token is looked up and the handler called, or the verb is unknown
LookupTable ==
  /\ last.op = "dispatchers"
  /\ LET st == parse_step(args, argv, params)
     IN /\ args' = st.a
        /\ argv' = st.av
        /\ param' = st.param
        /\ saved' = st.saved
        /\ pc' = IF st.kind = "invoke" THEN "handler" ELSE "idle"
        /\ call' = [call EXCEPT !.unknown = st.kind = "unknown",
                                !.failed = st.a.count_ < 0]
        /\ last' = [op |-> "lookup", arg |-> st.kind, in |-> args, obj |-> obj,
                    ret |-> st.method, calls |-> 0]
  /\ UNCHANGED <<argv0, obj, params, hops>>

NextTable == BuildTable \/ LookupTable

SpecTable == InitTable /\ [][NextTable]_vars

\* ---------------------------------------------------------------- str2argv
\* the terminator '\0'
NUL == "NUL"

\* chr <= ' ' for the characters of the buffers: the controls and the
\* space; every other character of the model is above the space
le_space(chr) == chr \in {NUL, "\t", "\n", " "}

\* the classification of chr into symbol_t
symbol_of(chr, comment) ==
  IF chr = "\n" THEN "eol"
  ELSE IF le_space(chr) THEN "space"
  ELSE IF chr = comment THEN "comment"
  ELSE "token"

\* transitions in which a comment does not swallow the characters after it
transitions_open(state, symbol) ==
  CASE symbol = "space" -> "space"
    [] symbol = "comment" -> "comment"
    [] symbol = "eol" -> "space"
    [] symbol = "token" -> IF state \in {"space", "comment"} THEN "start" ELSE "token"

\* static constexpr state_t transitions[4][4], rows space, comment, start,
\* token and columns space, comment, token, eol
transitions(state, symbol) ==
  CASE state = "space" ->
         (CASE symbol = "space" -> "space" [] symbol = "comment" -> "comment"
            [] symbol = "token" -> "start" [] symbol = "eol" -> "space")
    [] state = "comment" ->
         (CASE symbol = "space" -> "comment" [] symbol = "comment" -> "comment"
            [] symbol = "token" -> "comment" [] symbol = "eol" -> "space")
    [] state = "start" ->
         (CASE symbol = "space" -> "space" [] symbol = "comment" -> "comment"
            [] symbol = "token" -> "token" [] symbol = "eol" -> "space")
    [] state = "token" ->
         (CASE symbol = "space" -> "space" [] symbol = "comment" -> "comment"
            [] symbol = "token" -> "token" [] symbol = "eol" -> "space")

\* an overwrite of the blanks and newlines only
overwrite_blanks(chr, symbol) == IF symbol \in {"space", "eol"} THEN NUL ELSE chr

\* if (symbol != symbol_t::token) chr = '\0'
overwrite(chr, symbol) == IF symbol # "token" THEN NUL ELSE chr

\* the loop of str2argv from the character i on; result holds the indices
\* of str that the returned char* designate
RECURSIVE str2argv_loop(_, _, _, _, _)
str2argv_loop(str, comment, i, state, result) ==
  IF i > Len(str) THEN [str |-> str, result |-> result]
  ELSE LET symbol == symbol_of(str[i], comment)
           next == transitions(state, symbol)
       IN str2argv_loop([str EXCEPT ![i] = overwrite(str[i], symbol)], comment, i + 1, next,
                        IF next = "start" THEN Append(result, i) ELSE result)

\* std::vector<char*> str2argv(std::string& str, char comment)
str2argv(str, comment) == str2argv_loop(str, comment, 1, "space", <<>>)

\* the C string at the index i of str: up to the next terminator, or to
\* the terminator that ends the std::string
RECURSIVE c_str(_, _)
c_str(str, i) ==
  IF i > Len(str) \/ str[i] = NUL THEN <<>> ELSE <<str[i]>> \o c_str(str, i + 1)

BufAlphabet == {"a", "b", "#", " ", "\n"}

\* the comment markers: the default, and a letter
CommentChars == {"#", "b"}

\* the line of the round-trip test of the specification
ExampleLine ==
  <<"r", "u", "n", " ", " ", "-", "-", "f", "l", "a", "g", "=", "1", " ", "#",
    " ", "c", "o", "m", "m", "e", "n", "t", "\n", "n", "e", "x", "t">>

\* every buffer of at most MaxBuf characters over BufAlphabet, and the
\* example line
Buffers == UNION {[1 .. n -> BufAlphabet] : n \in 0 .. MaxBuf} \cup {ExampleLine}

InitStr ==
  /\ argv = <<>>
  /\ argv0 = <<>>
  /\ args = Arguments(0)
  /\ obj = Obj0
  /\ pc = "idle"
  /\ params = <<>>
  /\ param = <<>>
  /\ saved = nothing
  /\ hops = 0
  /\ \E str \in Buffers, comment \in CommentChars :
       last = [op |-> "std::string", arg |-> comment, in |-> str, obj |-> obj, ret |-> TRUE,
               calls |-> 0]
  /\ call = Call0

\* str2argv(str, comment): last.ret holds the buffer and the returned
\* pointers, argv the tokens the pointers designate
Str2argv ==
  /\ last.op = "std::string"
  /\ LET r == str2argv(last.in, last.arg)
     IN /\ last' = [last EXCEPT !.op = "str2argv", !.ret = r]
        /\ argv' = [k \in 1 .. Len(r.result) |-> c_str(r.str, r.result[k])]
        /\ argv0' = argv'
  /\ UNCHANGED <<args, obj, pc, params, param, saved, hops, call>>

NextStr == Str2argv

SpecStr == InitStr /\ [][NextStr]_vars

\* ----------------------------------------------------------------- claims
ExtractionOps == {"get_integral", "get_double", "get_string", "get_view", "getall"}

\* failure as the call last.op reports it: false, or the empty view of get()
Failure == IF last.op = "get_view" THEN <<>> ELSE FALSE

HasEq(tok) == \E k \in 1 .. Len(tok) : tok[k] = "="

FirstEq(tok) ==
  CHOOSE k \in 1 .. Len(tok) : tok[k] = "=" /\ \A j \in 1 .. k - 1 : tok[j] # "="

KeyOf(tok) == IF HasEq(tok) THEN SubSeq(tok, 1, FirstEq(tok)) ELSE tok

InlineOf(tok) == SubSeq(tok, FirstEq(tok) + 1, Len(tok))

\* the token is [-]digits and nothing else (the sign for a signed T only)
IsDecimal(tok, T) ==
  LET body == IF is_signed(T) /\ tok # <<>> /\ tok[1] = "-" THEN Tail(tok) ELSE tok
  IN body # <<>> /\ \A k \in 1 .. Len(body) : body[k] \in Digits

\* the token is digits with an optional sign, whatever the slot type
IsNumeric(tok) == IsDecimal(tok, "signed char")

RECURSIVE DecimalValue(_)
DecimalValue(tok) ==
  IF tok = <<>> THEN 0
  ELSE IF tok[1] = "-" THEN -DecimalValue(Tail(tok))
  ELSE 10 * DecimalValue(SubSeq(tok, 1, Len(tok) - 1)) + DigitVal(tok[Len(tok)])

\* C1: once the cursor is in FAILURE (count_ < 0), every call of
\* get(integer), get(double), get(text), get() and getall returns failure
\* (get() the empty view) and leaves position, count and error text as
\* they were.
C1_StickyFailure ==
  (last.op \in ExtractionOps /\ last.in.count_ < 0)
    => (last.ret = Failure /\ args = last.in /\ obj = last.obj)

\* a getall made after a typed get has failed on a token that is no number
C1_Witness ==
  /\ last.op = "getall"
  /\ last.in.count_ < 0
  /\ last.in.errors_ # <<>>
  /\ last.in.errors_[1] = "expects number in place of '"

\* C2: a true result of parse implies that every handler it called
\* returned success, that it met no unknown verb and that the cursor never
\* entered FAILURE during the call.
C2_TrueIffNoFailure ==
  (last.op = "parse" /\ last.ret = TRUE)
    => (call.ok /\ ~call.unknown /\ ~call.failed /\ args.count_ >= 0)

\* C3: when parse calls a handler for a token with '=', the key is the
\* token up to and including its first '=', the rest of the token is the
\* current token of the cursor and is counted, and the first extraction
\* call of the handler receives exactly that rest.
C3_SplitAtEq ==
  /\ (pc = "handler" /\ last.op = "invoke")
       => LET tok == argv0[last.in.values_]
          IN /\ param = KeyOf(tok)
             /\ HasEq(tok) <=> saved # nothing
             /\ HasEq(tok) => /\ args.count_ = last.in.count_
                              /\ args.values_ = last.in.values_
                              /\ argv[args.values_] = InlineOf(tok)
             /\ ~HasEq(tok) => /\ args.count_ = last.in.count_ - 1
                               /\ args.values_ = last.in.values_ + 1
  /\ (pc = "handler" /\ saved # nothing /\ hops = 1 /\ last.op \in ExtractionOps)
       => LET inline == InlineOf(argv0[last.in.values_])
          IN CASE last.op = "get_view" ->
                    last.ret = inline /\ args.count_ = last.in.count_ - 1
               [] last.op = "get_string" -> last.ret = TRUE /\ obj.s = inline
               [] last.op \in {"get_integral", "get_double"} ->
                    IF last.ret = TRUE
                      THEN /\ inline # <<>>
                           /\ inline[1] \in Digits \cup {"-"}
                           /\ args.values_ = last.in.values_ + 1
                    ELSE LET n == Len(args.errors_)
                         IN /\ n > Len(inline) + 1
                            /\ args.errors_[n] = "'"
                            /\ SubSeq(args.errors_, n - Len(inline), n - 1) = inline
                            /\ args.values_ = last.in.values_
               [] last.op = "getall" ->
                    (last.arg # <<>> /\ last.arg[1] = "s" /\ Len(last.arg) <= last.in.count_)
                      => obj.s = inline

\* the handler of the token a== has called get() and received =
C3_Witness ==
  /\ pc = "handler"
  /\ saved # nothing
  /\ hops = 1
  /\ last.op = "get_view"
  /\ last.ret = <<"=">>
  /\ param = <<"a", "=">>

\* C4: outside a handler every entry of argv has the value the caller gave
\* it, in particular when parse has returned; inside a handler argv
\* differs at most in the entry of the split token, whose undo record
\* holds the caller's value.
C4_SplitRestore ==
  /\ pc = "idle" => argv = argv0
  /\ (pc = "handler" /\ saved = nothing) => argv = argv0
  /\ (pc = "handler" /\ saved # nothing)
       => /\ saved.second = argv0[saved.first]
          /\ Len(argv) = Len(argv0)
          /\ \A k \in 1 .. Len(argv) : k # saved.first => argv[k] = argv0[k]

\* parse has returned failure after the handler of a split token consumed
\* the inline value and the token after it and returned failure
C4_Witness ==
  /\ last.op = "parse"
  /\ last.ret = FALSE
  /\ ~call.ok
  /\ Len(argv0) = 2
  /\ HasEq(argv0[1])
  /\ args.count_ = 0
  /\ argv = argv0

\* the keys of TestParams: the names and aliases of its valid descriptors
TestKeys == {<<"a", "=">>, <<"a">>, <<"1">>, <<"-", "a">>, <<"-">>}

\* C5: a token whose key is no name and no alias of a valid descriptor
\* makes parse return failure without a handler being called, the cursor
\* enters FAILURE and the error text gains "Unknown verb '<key>' expected
\* one of:" and the name of every table entry in table order, each after
\* a space; a handler is called only for a key of the table.
C5_UnknownVerb ==
  /\ (pc = "handler" /\ last.op = "invoke") => param \in TestKeys
  /\ (last.op = "parse" /\ call.unknown)
       => LET key == KeyOf(argv0[last.in.values_])
          IN /\ key \notin TestKeys
             /\ pc = "idle"
             /\ last.ret = FALSE
             /\ args.count_ < 0
             /\ args.errors_ = last.in.errors_ \o <<"Unknown verb '">> \o key
                                 \o <<"' expected one of:">>
                                 \o <<" ", "a", "=", " ", "a", " ", "-", " ", " ", "9", "=">>

\* the token 9=a, whose key 9= is the name of an invalid descriptor only
C5_Witness ==
  /\ last.op = "parse"
  /\ call.unknown
  /\ argv0[last.in.values_] = <<"9", "=", "a">>

OneDigit(n) == CASE n = 0 -> "0" [] n = 1 -> "1" [] n = 2 -> "2" [] n = 3 -> "3" [] n = 4 -> "4"

\* C6: getall with N slots on a cursor not in FAILURE with M < N tokens
\* returns failure, changes no slot, leaves the position, appends
\* "expects N parameters, got only M" and enters FAILURE.
C6_GetallArity ==
  (last.op = "getall" /\ last.in.count_ >= 0 /\ Len(last.arg) > last.in.count_)
    => /\ last.ret = FALSE
       /\ obj = last.obj
       /\ args.values_ = last.in.values_
       /\ args.count_ < 0
       /\ args.errors_ = last.in.errors_ \o <<"expects ", OneDigit(Len(last.arg)),
                                              " parameters, got only ",
                                              OneDigit(last.in.count_)>>

\* getall(u, s, i) with one token left
C6_Witness ==
  /\ last.op = "getall"
  /\ Len(last.arg) = 3
  /\ last.in.count_ = 1
  /\ last.ret = FALSE

\* the slot j of the getall call last.arg reads this token
SlotToken(j) == argv[last.in.values_ + j - 1]

\* the token without the sign that from_chars accepts for the type T
Body(tok, T) == IF is_signed(T) /\ tok # <<>> /\ tok[1] = "-" THEN Tail(tok) ELSE tok

\* the number of digits the token body starts with
Lead(b) ==
  CHOOSE n \in 0 .. Len(b) :
    /\ \A k \in 1 .. n : b[k] \in Digits
    /\ n < Len(b) => b[n + 1] \notin Digits

\* the value of the leading [-]digits of the token
PrefixValue(tok, T) ==
  LET v == DecimalValue(SubSeq(Body(tok, T), 1, Lead(Body(tok, T))))
  IN IF Body(tok, T) # tok THEN -v ELSE v

\* the get of slot j fails on its token: no leading number, or one out
\* of the range of the slot type
SlotFails(j) ==
  LET T == SlotType(last.arg[j])
  IN /\ T \in IntTypes
     /\ \/ Lead(Body(SlotToken(j), T)) = 0
        \/ PrefixValue(SlotToken(j), T) < lowest(T)
        \/ PrefixValue(SlotToken(j), T) > max(T)

\* slot j holds what its token gives
SlotFilled(j) ==
  IF SlotType(last.arg[j]) = "std::string" THEN obj[last.arg[j]] = SlotToken(j)
  ELSE obj[last.arg[j]] = PrefixValue(SlotToken(j), SlotType(last.arg[j]))

\* C7: getall with N slots and at least N tokens fills the slots left to
\* right from consecutive tokens; when slot k is the first to fail it
\* returns failure after k get calls, slots before k hold their new
\* values, the position has advanced by k-1 and the slots from k on are
\* as before; when none fails it returns success after N calls and the
\* position has advanced by N.
C7_GetallNoRollback ==
  (last.op = "getall" /\ last.in.count_ >= Len(last.arg))
    => LET N == Len(last.arg)
           failing == {j \in 1 .. N : SlotFails(j)}
       IN IF failing = {}
            THEN /\ last.ret = TRUE
                 /\ args.values_ = last.in.values_ + N
                 /\ args.count_ = last.in.count_ - N
                 /\ last.calls = N
                 /\ \A j \in 1 .. N : SlotFilled(j)
          ELSE LET k == CHOOSE j \in failing : \A h \in failing : j <= h
               IN /\ last.ret = FALSE
                  /\ args.values_ = last.in.values_ + k - 1
                  /\ last.calls = k
                  /\ \A j \in 1 .. k - 1 : SlotFilled(j)
                  /\ \A j \in k .. N : obj[last.arg[j]] = last.obj[last.arg[j]]

\* getall(s, i) on a text token and a token that is no number: s is
\* filled, i fails
C7_Witness ==
  /\ last.op = "getall"
  /\ last.arg = <<"s", "i">>
  /\ last.in.count_ = 2
  /\ last.ret = FALSE
  /\ args.values_ = last.in.values_ + 1
  /\ obj.s # last.obj.s

\* C8: whenever parse returns true the cursor is exhausted: no token is
\* left, every token of argv was pulled by parse or consumed by a handler.
C8_DoneMeansExhausted ==
  (last.op = "parse" /\ last.ret = TRUE)
    => (args.count_ = 0 /\ args.values_ = Len(argv0) + 1)

\* C9: get(integer slot) on a non-empty cursor not in FAILURE succeeds
\* exactly when the token is a base-10 integer in the range of the slot
\* type, then stores its value and advances by one; a token that is no
\* integer fails with "expects number in place of", a numeric token out of
\* range with the range message, both without advancing and in FAILURE.
C9_GetInteger ==
  (last.op = "get_integral" /\ last.in.count_ > 0)
    => LET f == last.arg[1]
           T == SlotType(f)
           tok == argv[last.in.values_]
           inrange == DecimalValue(tok) >= lowest(T) /\ DecimalValue(tok) <= max(T)
       IN IF IsNumeric(tok) /\ inrange
            THEN /\ last.ret = TRUE
                 /\ obj[f] = DecimalValue(tok)
                 /\ args.values_ = last.in.values_ + 1
                 /\ args.count_ = last.in.count_ - 1
          ELSE /\ last.ret = FALSE
               /\ args.values_ = last.in.values_
               /\ args.count_ < 0
               /\ args.errors_[Len(last.in.errors_) + 1] =
                    IF IsNumeric(tok) THEN "expects number in range ["
                    ELSE "expects number in place of '"

\* C10 as stated: every extraction call with a slot on an empty cursor not
\* in FAILURE returns failure, does not enter FAILURE and adds no text.
C10_EmptyFailsQuietly ==
  (last.op \in {"get_integral", "get_double", "get_string", "getall"} /\ last.in.count_ = 0)
    => (last.ret = FALSE /\ args = last.in)

\* C10 amended: on an empty cursor not in FAILURE get(integer),
\* get(double) and get(text) return failure and change nothing; getall
\* with N >= 1 slots returns failure, enters FAILURE and appends "expects
\* N parameters, got only 0"; getall without slots returns success and
\* changes nothing.
C10_EmptyGetQuietGetallArity ==
  (last.op \in {"get_integral", "get_double", "get_string", "getall"} /\ last.in.count_ = 0)
    => /\ obj = last.obj
       /\ IF last.op # "getall" THEN last.ret = FALSE /\ args = last.in
          ELSE IF last.arg = <<>> THEN last.ret = TRUE /\ args = last.in
          ELSE /\ last.ret = FALSE
               /\ args.count_ < 0
               /\ args.values_ = last.in.values_
               /\ args.errors_ = last.in.errors_ \o <<"expects ", OneDigit(Len(last.arg)),
                                                      " parameters, got only ", "0">>

\* get(text) on a cursor whose tokens have all been consumed
C10_Witness ==
  /\ last.op = "get_string"
  /\ last.in.count_ = 0
  /\ last.in.values_ > 1
  /\ last.ret = FALSE

\* C11: errors(replacement) called on a cursor in FAILURE returns the
\* previous text and puts the cursor back into normal operation
\* (count_ >= 0).  FAILURE entered by an error: the text is not empty.
C11_ErrorsResetsFailure ==
  (last.op = "errors" /\ last.in.count_ < 0 /\ last.in.errors_ # <<>>)
    => (last.ret = last.in.errors_ /\ args.count_ >= 0)

\* the aliases of a space-delimited text: its maximal runs without a space
AliasSet(blob) ==
  {SubSeq(blob, i, j) : <<i, j>> \in
     {ij \in (1 .. Len(blob)) \X (1 .. Len(blob)) :
        /\ ij[1] <= ij[2]
        /\ \A k \in ij[1] .. ij[2] : blob[k] # " "
        /\ ij[1] > 1 => blob[ij[1] - 1] = " "
        /\ ij[2] < Len(blob) => blob[ij[2] + 1] = " "}}

\* the descriptor passes the validity predicate
IsValid(p) == p.name # <<>> /\ p.dispatcher # nullptr

\* the name and the aliases of a descriptor
KeysOf(p) == {p.name} \cup AliasSet(p.aliases)

\* the valid descriptors of the table params
ValidDescr == {i \in 1 .. Len(params) : IsValid(params[i])}

Buf == last.in

Marker == last.arg

\* the character i lies in a comment: after a marker, the marker included,
\* with no newline in between
InComment(i) ==
  \E m \in 1 .. i : Buf[m] = Marker /\ \A k \in m .. i : Buf[k] # "\n"

IsBlank(c) == c \in {" ", "\t", "\n"}

\* the character i is an ordinary character outside a comment
TokenChar(i) == i \in 1 .. Len(Buf) /\ ~IsBlank(Buf[i]) /\ Buf[i] # Marker /\ ~InComment(i)

\* the first characters of the maximal runs of such characters
RunStarts == {i \in 1 .. Len(Buf) : TokenChar(i) /\ ~TokenChar(i - 1)}

\* the last character of the run that starts at i
RunEnd(i) ==
  CHOOSE j \in i .. Len(Buf) : (\A k \in i .. j : TokenChar(k)) /\ ~TokenChar(j + 1)

\* C13: str2argv returns, in buffer order, exactly one token per maximal
\* run of ordinary characters outside a comment, and each token read up
\* to its terminator equals its run.
C13_TokenizerResult ==
  last.op = "str2argv"
    => /\ Len(last.ret.result) = Cardinality(RunStarts)
       /\ {last.ret.result[k] : k \in 1 .. Len(last.ret.result)} = RunStarts
       /\ \A k \in 1 .. Len(last.ret.result) - 1 : last.ret.result[k] < last.ret.result[k + 1]
       /\ \A k \in 1 .. Len(argv) :
            argv[k] = SubSeq(Buf, last.ret.result[k], RunEnd(last.ret.result[k]))

\* the example line gives run, --flag=1 and next
C13_Witness ==
  /\ last.op = "str2argv"
  /\ Buf = ExampleLine
  /\ Marker = "#"
  /\ argv = << <<"r", "u", "n">>, <<"-", "-", "f", "l", "a", "g", "=", "1">>,
               <<"n", "e", "x", "t">> >>

\* C14 as stated: every blank, and every character from a comment marker
\* up to the next newline, is overwritten with the terminator, and no
\* character of a token is changed.
C14_CommentOverwritten ==
  last.op = "str2argv"
    => \A i \in 1 .. Len(Buf) :
         /\ (IsBlank(Buf[i]) \/ InComment(i)) => last.ret.str[i] = NUL
         /\ TokenChar(i) => last.ret.str[i] = Buf[i]

\* C14 amended: every blank, every newline and every comment marker is
\* overwritten with the terminator, and no other character is changed:
\* neither the characters of a token nor the ordinary characters of the
\* text of a comment.
C14_MarkersOverwritten ==
  last.op = "str2argv"
    => /\ Len(last.ret.str) = Len(Buf)
       /\ \A i \in 1 .. Len(Buf) :
            last.ret.str[i] = IF IsBlank(Buf[i]) \/ Buf[i] = Marker THEN NUL ELSE Buf[i]

\* a token, a comment with text, a newline and a token: the text stays
C14_Witness ==
  /\ last.op = "str2argv"
  /\ Buf = <<"a", "#", "a", "\n", "a">>
  /\ Marker = "#"
  /\ last.ret.str = <<"a", NUL, "a", NUL, "a">>
  /\ Len(argv) = 2

\* the tokens of argv from the position of the cursor on
Unconsumed == {argv[k] : k \in args.values_ .. Len(argv)}

\* contains left the cursor, the handler object and the token array alone
ContainsIsPure ==
  /\ args = last.in
  /\ obj = last.obj
  /\ pc = "idle" => argv = argv0
  /\ (pc = "handler" /\ saved # nothing)
       => argv = [argv0 EXCEPT ![saved.first] = InlineOf(argv0[saved.first])]

\* C15 as stated: contains changes nothing and returns true exactly when
\* some token not yet consumed equals the literal, in FAILURE too.
C15_ContainsUnconsumed ==
  last.op = "contains"
    => (ContainsIsPure /\ (last.ret <=> last.arg \in Unconsumed))

\* C15 amended: contains changes nothing; outside FAILURE it returns true
\* exactly when some token not yet consumed equals the literal, in
\* FAILURE it returns false.
C15_ContainsOutsideFailure ==
  last.op = "contains"
    => (ContainsIsPure /\ (last.ret <=> (args.count_ >= 0 /\ last.arg \in Unconsumed)))

\* inside the handler of a=9, after a=9 was pulled and split: contains
\* finds the inline value 9 and not the consumed verb a
C15_Witness ==
  /\ last.op = "contains"
  /\ pc = "handler"
  /\ saved # nothing
  /\ argv0 = << <<"a">>, <<"a", "=", "9">> >>
  /\ \/ last.arg = <<"9">> /\ last.ret = TRUE
     \/ last.arg = <<"a">> /\ last.ret = FALSE

\* C16: an empty cursor (count_ <= 0, as one built with a zero or negative
\* count) stays empty under every operation; parse called on it returns
\* failure at once, calls no handler and changes neither the cursor, the
\* token array nor the handler object; get() returns the empty view and
\* changes nothing.
C16_EmptyInput ==
  [][empty(args)
       => /\ empty(args')
          /\ (pc = "idle" /\ last'.op = "parse")
               => /\ last'.ret = FALSE
                  /\ pc' = "idle"
                  /\ ~call'.unknown
                  /\ args' = args
                  /\ argv' = argv
                  /\ obj' = obj
          /\ last'.op = "get_view" => (last'.ret = <<>> /\ args' = args)]_vars

\* parse has returned failure on a cursor built with the count zero
C16_Witness ==
  /\ argv0 = <<>>
  /\ last.op = "parse"
  /\ last.ret = FALSE
  /\ args = Arguments(0)

\* the method that TestParams binds to a key
MethodOf(key) ==
  CASE key = <<"a", "=">> -> <<"option">>
    [] key \in {<<"a">>, <<"1">>, <<"-", "a">>} -> <<"foo">>
    [] key = <<"-">> -> <<"dash">>

\* C17: a handler is called for the token at the cursor, where the call
\* of parse or the handler before it left the cursor, with the key of
\* that token and the method the table binds to it; when a handler
\* returns failure parse returns failure at once, calls no further handler
\* and leaves the cursor (position, count and error text) as the handler
\* left it.
C17_DispatchOrder ==
  [][/\ last'.op = "invoke"
          => /\ pc' = "handler"
             /\ call'.ok
             /\ last'.in = args
             /\ param' = KeyOf(argv0[args.values_])
             /\ last'.arg = MethodOf(param')
     /\ (pc = "handler" /\ last'.op \in {"invoke", "parse"} /\ ~call'.ok)
          => /\ last'.op = "parse"
             /\ last'.ret = FALSE
             /\ pc' = "idle"
             /\ args' = args]_vars

\* the handler of the first of two tokens returned failure: parse returned
\* failure with the second token left and no text
C17_Witness ==
  /\ last.op = "parse"
  /\ last.ret = FALSE
  /\ ~call.ok
  /\ Len(argv0) = 2
  /\ args.values_ = 2
  /\ args.count_ = 1
  /\ args.errors_ = <<>>

\* C18: whenever a handler returns success, fewer tokens remain than
\* before the token of the handler was pulled, also when the token was
\* split and the handler consumed nothing; so parse terminates.
C18_Progress ==
  [][(pc = "handler" /\ last'.op \in {"invoke", "parse"} /\ call'.ok)
       => args.count_ < call.before]_vars

\* the typed get(slot) calls
SlotOps == {"get_integral", "get_double", "get_string"}

\* this step is a return of failure from parse, called on a non-empty
\* cursor with an empty text, or out of a handler that returns the false
\* result of the get(slot) or getall it called last
ExplainedReturn ==
  /\ last'.op = "parse"
  /\ last'.ret = FALSE
  /\ \/ pc = "idle" /\ args.count_ > 0 /\ args.errors_ = <<>>
     \/ /\ pc = "handler"
        /\ hops > 0
        /\ last.op \in SlotOps \cup {"getall"}
        /\ last.ret = FALSE

\* C19: when parse, called on a non-empty cursor with an empty text,
\* returns failure because of an unknown verb or of a handler that returns
\* the false result of a get(slot) or getall, the error text is not empty.
C19_FailureExplained == [][ExplainedReturn => args'.errors_ # <<>>]_vars

\* C19 amended: as C19, unless the handler returns the result of a get(slot)
\* called on a cursor with no token left, which fails without any text.
C19_FailureExplainedUnlessExhausted ==
  [][(ExplainedReturn /\ ~(pc = "handler" /\ last.op \in SlotOps /\ last.in.count_ = 0))
       => args'.errors_ # <<>>]_vars

\* parse returned the failure of a handler whose extraction call failed on
\* a token, with the text of that call
C19_Witness ==
  /\ last.op = "parse"
  /\ last.ret = FALSE
  /\ ~call.ok
  /\ ~call.unknown
  /\ call.failed
  /\ args.count_ < 0
  /\ args.errors_ # <<>>

\* the entries a cursor a over n tokens can read lie inside the array
InBounds(a, n) ==
  a.count_ >= 0
    => /\ a.count_ <= n
       /\ a.values_ - 1 = n - a.count_

\* C20: while the cursor is not in FAILURE, count_ is between 0 and the
\* number n of tokens and the position is n - count_, between the calls
\* and inside a handler while a split is pending; every call that reads
\* tokens started from such a cursor, and the entry a pending split
\* restores is one of the n entries.
C20_CursorBounds ==
  /\ InBounds(args, Len(argv0))
  /\ Len(argv) = Len(argv0)
  /\ last.op \in ExtractionOps \cup {"contains", "invoke", "parse"}
       => InBounds(last.in, Len(argv0))
  /\ saved # nothing => saved.first \in 1 .. Len(argv0)

\* inside the handler of the second of two tokens, split at '=', with the
\* inline value put back
C20_Witness ==
  /\ pc = "handler"
  /\ saved # nothing
  /\ hops = 0
  /\ Len(argv0) = 2
  /\ args.values_ = 2
  /\ args.count_ = 1

====
